---- MODULE Spec2Model ----
(***************************************************************************)
(* A model of coolecode.py: the Pokemon data class, the shared id          *)
(* generator, Pokemon.receive_damage, Pokemon.attack_opponent,             *)
(* BattleArena.battle with its history, and the two data analysis          *)
(* functions pokemon_statistics and group_by_type.                         *)
(*                                                                         *)
(* The program is single threaded.  A driver (main, or any other caller)   *)
(* constructs Pokemon and then calls receive_damage, attack_opponent,      *)
(* battle, pokemon_statistics and group_by_type, one call at a time.       *)
(* battle is modelled statement by statement (pc is the position inside    *)
(* it), every other call is one step.                                      *)
(***************************************************************************)
EXTENDS Integers, Sequences, FiniteSets, TLC

(***************************************************************************)
(* Bounds of the model.                                                    *)
(***************************************************************************)
\* the number of Pokemon the driver constructs
MaxPokemons == 2
\* the number of calls (methods, battle, data analysis) the driver makes
MaxCalls == 2

(***************************************************************************)
(* State.                                                                  *)
(***************************************************************************)
VARIABLES
    pokemons,   \* every Pokemon object constructed so far, in construction order
    counter,    \* the number the generator id_gen yields on its next next()
    history,    \* BattleArena.history
    returned,   \* the values battle has returned to its caller, in call order
    pc,         \* "idle": no call is running; otherwise the position in battle
    pkmn1,      \* the latest call's first battle argument (an index into
                \* pokemons), 0 when the latest call was not a battle
    pkmn2,      \* the latest call's second battle argument, or 0
    call_hp,    \* <<pkmn1.hp, pkmn2.hp>> as they were when that battle was called
    log,        \* the damage notices printed during the latest call, in order
    move,       \* the move printed by the latest attack_opponent
    error,      \* the exception the latest call raised to the driver, or "none"
    calls,      \* the number of calls the driver has made
    result      \* what the latest call returned, when that call was
                \* pokemon_statistics or group_by_type; NoResult otherwise

vars == <<pokemons, counter, history, returned, pc, pkmn1, pkmn2, call_hp,
          log, move, error, calls, result>>

\* no pokemon_statistics or group_by_type has returned from the latest call
NoResult == [call |-> "none"]

(***************************************************************************)
(* Pure helpers.                                                           *)
(***************************************************************************)
\* Python's builtin max on two integers
Max(a, b) == IF a >= b THEN a ELSE b

\* str() of one decimal digit
Digit(d) == <<"0", "1", "2", "3", "4", "5", "6", "7", "8", "9">>[d + 1]

\* str() of a natural number: its decimal digits, most significant first
RECURSIVE Decimal(_)
Decimal(n) == IF n < 10 THEN Digit(n) ELSE Decimal(n \div 10) \o Digit(n % 10)

\* the f-string f"{prefix}{counter}" the generator yields
FormatId(prefix, n) == prefix \o Decimal(n)

\* the prefix id_gen is constructed with
IdPrefix == "PKMN-"

(***************************************************************************)
(* The constructor arguments the driver chooses from: the first two        *)
(* Pokemon of main, and three that bring in the corner cases (negative and *)
(* odd stats, equal speeds, an empty move list, a negative hp).  A driver  *)
(* constructs some of them, in the order of this list.                     *)
(***************************************************************************)
Pikachu ==
    [name |-> "Pikachu", type_ |-> "Electric", hp |-> 35, attack |-> 55,
     defense |-> 40, speed |-> 90,
     moves |-> <<"Thunderbolt", "Quick Attack", "Iron Tail">>]

Charmander ==
    [name |-> "Charmander", type_ |-> "Fire", hp |-> 39, attack |-> 52,
     defense |-> 43, speed |-> 65,
     moves |-> <<"Flamethrower", "Scratch", "Ember">>]

Rattata ==
    [name |-> "Rattata", type_ |-> "Normal", hp |-> 3, attack |-> -3,
     defense |-> -3, speed |-> 65, moves |-> <<"Tackle">>]

Ditto ==
    [name |-> "Ditto", type_ |-> "Normal", hp |-> 2, attack |-> 2,
     defense |-> 1, speed |-> 90, moves |-> <<>>]

MissingNo ==
    [name |-> "MissingNo", type_ |-> "Fire", hp |-> -1, attack |-> 1,
     defense |-> 0, speed |-> 0, moves |-> <<"Glitch">>]

Inputs == <<Pikachu, Charmander, Rattata, Ditto, MissingNo>>

\* the place in Inputs of the arguments the latest Pokemon was constructed from
LastInput(ps) ==
    IF ps = <<>> THEN 0
    ELSE CHOOSE k \in 1 .. Len(Inputs) : Inputs[k].name = ps[Len(ps)].name

\* the damage arguments the driver passes to receive_damage directly
DamageVals == {-1, 0, 3, 40}

(***************************************************************************)
(* The Pokemon data class.                                                 *)
(***************************************************************************)
\* Pokemon(...) followed by __post_init__, with the id drawn from id_gen
NewPokemon(args, id) ==
    [sort_index |-> args.hp, name |-> args.name, type_ |-> args.type_,
     hp |-> args.hp, attack |-> args.attack, defense |-> args.defense,
     speed |-> args.speed, moves |-> args.moves, id |-> id]

\* receive_damage without the clamp at zero: self.hp = self.hp - damage
ReceiveDamageNoClamp(self, damage) == [self EXCEPT !.hp = self.hp - damage]

\* receive_damage with min for max: self.hp = min(self.hp - damage, 0)
ReceiveDamageMin(self, damage) ==
    [self EXCEPT !.hp = IF self.hp - damage <= 0 THEN self.hp - damage ELSE 0]

\* receive_damage writing the wrong field: self.defense = max(self.hp - damage, 0)
ReceiveDamageDefense(self, damage) ==
    [self EXCEPT !.defense = Max(self.hp - damage, 0)]

\* Pokemon.receive_damage: the object after self.hp = max(self.hp - damage, 0)
ReceiveDamage(self, damage) == [self EXCEPT !.hp = Max(self.hp - damage, 0)]

\* the damage with the floor at 0 instead of 1
DamageFloorZero(self, opponent) == Max(self.attack - (opponent.defense \div 2), 0)

\* integer division that rounds toward zero, as / does in C
TruncDiv(x, y) == IF x >= 0 THEN x \div y ELSE 0 - ((0 - x) \div y)

\* the damage with the defense halved toward zero instead of floored
DamageTruncated(self, opponent) ==
    Max(self.attack - TruncDiv(opponent.defense, 2), 1)

\* the damage attack_opponent computes: max(self.attack - opponent.defense // 2, 1)
Damage(self, opponent) == Max(self.attack - (opponent.defense \div 2), 1)

\* the heap after pokemons[a].attack_opponent(pokemons[d]) has run
AttackOpponent(a, d) ==
    [pokemons EXCEPT ![d] = ReceiveDamage(pokemons[d], Damage(pokemons[a], pokemons[d]))]

\* the notice of one damage; attacker is 0 when receive_damage is called directly
Notice(a, d, damage, hp) ==
    [attacker |-> a, defender |-> d, damage |-> damage, hp |-> hp]

Indices == 1 .. Len(pokemons)

(***************************************************************************)
(* Initial state: the module is loaded, id_gen is created and has yielded  *)
(* nothing, an arena exists with an empty history.                         *)
(***************************************************************************)
Init ==
    /\ pokemons = <<>>
    /\ counter = 1
    /\ history = <<>>
    /\ returned = <<>>
    /\ pc = "idle"
    /\ pkmn1 = 0
    /\ pkmn2 = 0
    /\ call_hp = <<0, 0>>
    /\ log = <<>>
    /\ move = ""
    /\ error = "none"
    /\ calls = 0
    /\ result = NoResult

(***************************************************************************)
(* The driver's steps.                                                     *)
(***************************************************************************)
\* a constructor that makes a generator of its own: next(infinite_id_generator("PKMN-"))
CreateOwnGenerator(k) ==
    /\ pc = "idle"
    /\ calls = 0
    /\ Len(pokemons) < MaxPokemons
    /\ k > LastInput(pokemons)
    /\ pokemons' = Append(pokemons, NewPokemon(Inputs[k], FormatId(IdPrefix, 1)))
    /\ counter' = counter + 1
    /\ UNCHANGED <<history, returned, pc, pkmn1, pkmn2, call_hp, log, move,
                   error, calls, result>>

\* Pokemon(name=..., ...): next(id_gen) yields the id and advances the counter.
\* As in main, the driver constructs its Pokemon before it makes its calls.
Create(k) ==
    /\ pc = "idle"
    /\ calls = 0
    /\ Len(pokemons) < MaxPokemons
    /\ k > LastInput(pokemons)
    /\ pokemons' = Append(pokemons, NewPokemon(Inputs[k], FormatId(IdPrefix, counter)))
    /\ counter' = counter + 1
    /\ UNCHANGED <<history, returned, pc, pkmn1, pkmn2, call_hp, log, move,
                   error, calls, result>>

\* pokemons[i].receive_damage(damage), called by the driver
ReceiveDamageCall(i, damage) ==
    /\ pc = "idle"
    /\ calls < MaxCalls
    /\ calls' = calls + 1
    /\ pokemons' = [pokemons EXCEPT ![i] = ReceiveDamage(pokemons[i], damage)]
    /\ log' = <<Notice(0, i, damage, pokemons'[i].hp)>>
    /\ error' = "none"
    /\ pkmn1' = 0
    /\ pkmn2' = 0
    /\ call_hp' = <<0, 0>>
    /\ result' = NoResult
    /\ UNCHANGED <<counter, history, returned, pc, move>>

\* pokemons[a].attack_opponent(pokemons[d]), called by the driver;
\* random.choice raises IndexError on an empty move list
AttackCall(a, d) ==
    /\ pc = "idle"
    /\ calls < MaxCalls
    /\ calls' = calls + 1
    /\ IF pokemons[a].moves = <<>>
       THEN /\ error' = "IndexError"
            /\ log' = <<>>
            /\ UNCHANGED <<pokemons, move>>
       ELSE /\ \E m \in 1 .. Len(pokemons[a].moves) : move' = pokemons[a].moves[m]
            /\ pokemons' = AttackOpponent(a, d)
            /\ log' = <<Notice(a, d, Damage(pokemons[a], pokemons[d]), pokemons'[d].hp)>>
            /\ error' = "none"
    /\ pkmn1' = 0
    /\ pkmn2' = 0
    /\ call_hp' = <<0, 0>>
    /\ result' = NoResult
    /\ UNCHANGED <<counter, history, returned, pc>>

(***************************************************************************)
(* Data analysis: pokemon_statistics and group_by_type.  A list of Pokemon *)
(* is the sequence pokemons; a reference to a Pokemon is its place in it.  *)
(***************************************************************************)
\* hp_values = [p.hp for p in pokemon_list]
HpValues(list) == [k \in 1 .. Len(list) |-> list[k].hp]

\* the sum of a list of integers
RECURSIVE Sum(_)
Sum(values) == IF values = <<>> THEN 0 ELSE Head(values) + Sum(Tail(values))

\* the absolute value
Abs(x) == IF x >= 0 THEN x ELSE 0 - x

\* the greatest common divisor of two naturals, not both 0
RECURSIVE Gcd(_, _)
Gcd(a, b) == IF b = 0 THEN a ELSE Gcd(b, a % b)

\* a mean that divides with //, an integer rounded down
MeanFloored(values) == [num |-> Sum(values) \div Len(values), den |-> 1]

\* statistics.mean of a non-empty list of integers: the exact fraction
\* total / n in lowest terms, as statistics._sum and Fraction compute it.
\* What mean returns is that fraction converted: the int num when den = 1,
\* else the double nearest to num / den.
Mean(values) ==
    LET g == Gcd(Abs(Sum(values)), Len(values))
    IN  [num |-> Sum(values) \div g, den |-> Len(values) \div g]

\* Python's max over a non-empty list, scanning from the left
RECURSIVE MaxFrom(_, _)
MaxFrom(best, rest) ==
    IF rest = <<>> THEN best
    ELSE MaxFrom(IF Head(rest) > best THEN Head(rest) ELSE best, Tail(rest))

\* Python's min over a non-empty list, scanning from the left
RECURSIVE MinFrom(_, _)
MinFrom(best, rest) ==
    IF rest = <<>> THEN best
    ELSE MinFrom(IF Head(rest) < best THEN Head(rest) ELSE best, Tail(rest))

\* the dictionary pokemon_statistics returns for a non-empty list
PokemonStatistics(list) ==
    [average_hp |-> Mean(HpValues(list)),
     max_hp |-> MaxFrom(Head(HpValues(list)), Tail(HpValues(list))),
     min_hp |-> MinFrom(Head(HpValues(list)), Tail(HpValues(list)))]

\* the code points of the type labels in use
CodePoints(s) ==
    CASE s = "Electric" -> <<69, 108, 101, 99, 116, 114, 105, 99>>
      [] s = "Fire" -> <<70, 105, 114, 101>>
      [] s = "Grass" -> <<71, 114, 97, 115, 115>>
      [] s = "Normal" -> <<78, 111, 114, 109, 97, 108>>
      [] s = "Water" -> <<87, 97, 116, 101, 114>>

\* Python's < on two strings, given as code points: lexicographic
RECURSIVE LexLess(_, _)
LexLess(s, t) ==
    IF t = <<>> THEN FALSE
    ELSE IF s = <<>> THEN TRUE
    ELSE IF Head(s) # Head(t) THEN Head(s) < Head(t)
    ELSE LexLess(Tail(s), Tail(t))

\* the comparison sorted makes between two keys p.type_
TypeLess(s, t) == LexLess(CodePoints(s), CodePoints(t))

\* an insertion that puts x before the elements whose key equals its own
InsertByTypeBeforeEquals(list, sorted, x) ==
    LET before == SelectSeq(sorted, LAMBDA y : TypeLess(list[y].type_, list[x].type_))
        after == SelectSeq(sorted, LAMBDA y : ~TypeLess(list[y].type_, list[x].type_))
    IN  before \o <<x>> \o after

\* x put into the sorted references after every element whose key is not
\* greater than x's: sorted is stable
InsertByType(list, sorted, x) ==
    LET before == SelectSeq(sorted, LAMBDA y : ~TypeLess(list[x].type_, list[y].type_))
        after == SelectSeq(sorted, LAMBDA y : TypeLess(list[x].type_, list[y].type_))
    IN  before \o <<x>> \o after

\* sorted(pokemon_list, key=lambda p: p.type_), over the first n elements
RECURSIVE SortedByType(_, _)
SortedByType(list, n) ==
    IF n = 0 THEN <<>> ELSE InsertByType(list, SortedByType(list, n - 1), n)

\* itertools.groupby(sorted, key=lambda p: p.type_): the runs of equal keys,
\* in order, each with its key
RECURSIVE GroupBy(_, _)
GroupBy(list, refs) ==
    IF refs = <<>> THEN <<>>
    ELSE LET runs == GroupBy(list, SubSeq(refs, 1, Len(refs) - 1))
             x == refs[Len(refs)]
         IN  IF runs # <<>> /\ runs[Len(runs)].key = list[x].type_
             THEN [runs EXCEPT ![Len(runs)].members = Append(@, x)]
             ELSE Append(runs, [key |-> list[x].type_, members |-> <<x>>])

\* grouped[key] = members on a dict kept as its items in insertion order
DictSet(grouped, key, members) ==
    IF \E k \in 1 .. Len(grouped) : grouped[k].key = key
    THEN [k \in 1 .. Len(grouped) |->
            IF grouped[k].key = key THEN [key |-> key, members |-> members]
            ELSE grouped[k]]
    ELSE Append(grouped, [key |-> key, members |-> members])

\* the loop of group_by_type over the runs
RECURSIVE Collect(_)
Collect(runs) ==
    IF runs = <<>> THEN <<>>
    ELSE DictSet(Collect(SubSeq(runs, 1, Len(runs) - 1)),
                 runs[Len(runs)].key, runs[Len(runs)].members)

\* group_by_type without the sort: groupby over the list as it is
GroupByTypeUnsorted(list) ==
    Collect(GroupBy(list, [k \in 1 .. Len(list) |-> k]))

\* the dictionary group_by_type returns
GroupByType(list) == Collect(GroupBy(list, SortedByType(list, Len(list))))

\* pokemon_statistics that answers zeros for an empty list
StatsCallNoRaise ==
    /\ pc = "idle"
    /\ calls < MaxCalls
    /\ calls' = calls + 1
    /\ error' = "none"
    /\ result' = [call |-> "pokemon_statistics",
                  value |-> IF pokemons = <<>>
                            THEN [average_hp |-> [num |-> 0, den |-> 1],
                                  max_hp |-> 0, min_hp |-> 0]
                            ELSE PokemonStatistics(pokemons)]
    /\ log' = <<>>
    /\ pkmn1' = 0
    /\ pkmn2' = 0
    /\ call_hp' = <<0, 0>>
    /\ UNCHANGED <<pokemons, counter, history, returned, pc, move>>

\* pokemon_statistics(pokemons), called by the driver; statistics.mean raises
\* StatisticsError on an empty list, before max and min are reached
StatsCall ==
    /\ pc = "idle"
    /\ calls < MaxCalls
    /\ calls' = calls + 1
    /\ IF pokemons = <<>>
       THEN /\ error' = "StatisticsError"
            /\ result' = NoResult
       ELSE /\ error' = "none"
            /\ result' = [call |-> "pokemon_statistics",
                          value |-> PokemonStatistics(pokemons)]
    /\ log' = <<>>
    /\ pkmn1' = 0
    /\ pkmn2' = 0
    /\ call_hp' = <<0, 0>>
    /\ UNCHANGED <<pokemons, counter, history, returned, pc, move>>

\* group_by_type sorting the caller's list: pokemon_list.sort(key=...)
GroupCallSortInPlace ==
    /\ pc = "idle"
    /\ calls < MaxCalls
    /\ calls' = calls + 1
    /\ error' = "none"
    /\ pokemons' = [k \in 1 .. Len(pokemons) |->
                      pokemons[SortedByType(pokemons, Len(pokemons))[k]]]
    /\ result' = [call |-> "group_by_type", value |-> GroupByType(pokemons')]
    /\ log' = <<>>
    /\ pkmn1' = 0
    /\ pkmn2' = 0
    /\ call_hp' = <<0, 0>>
    /\ UNCHANGED <<counter, history, returned, pc, move>>

\* group_by_type(pokemons), called by the driver
GroupCall ==
    /\ pc = "idle"
    /\ calls < MaxCalls
    /\ calls' = calls + 1
    /\ error' = "none"
    /\ result' = [call |-> "group_by_type", value |-> GroupByType(pokemons)]
    /\ log' = <<>>
    /\ pkmn1' = 0
    /\ pkmn2' = 0
    /\ call_hp' = <<0, 0>>
    /\ UNCHANGED <<pokemons, counter, history, returned, pc, move>>

(***************************************************************************)
(* BattleArena.battle, statement by statement.                             *)
(***************************************************************************)
\* the loop condition with >= for >: pkmn1.hp >= 0 and pkmn2.hp >= 0
FightingNonNegative == pokemons[pkmn1].hp >= 0 /\ pokemons[pkmn2].hp >= 0

\* the loop condition of battle
Fighting == pokemons[pkmn1].hp > 0 /\ pokemons[pkmn2].hp > 0

\* the order test turned round: pkmn1.speed <= pkmn2.speed
Pkmn1FirstIfSlower == pokemons[pkmn1].speed <= pokemons[pkmn2].speed

\* the order test with > for >=: pkmn1.speed > pkmn2.speed
Pkmn1FirstStrict == pokemons[pkmn1].speed > pokemons[pkmn2].speed

\* the test that decides a round's order: pkmn1.speed >= pkmn2.speed
Pkmn1First == pokemons[pkmn1].speed >= pokemons[pkmn2].speed

\* the participant that attacks first in a round, and the other one
First == IF Pkmn1First THEN pkmn1 ELSE pkmn2
Second == IF Pkmn1First THEN pkmn2 ELSE pkmn1

\* arena.battle(pokemons[i], pokemons[j]) is called
BattleCall(i, j) ==
    /\ pc = "idle"
    /\ calls < MaxCalls
    /\ calls' = calls + 1
    /\ pc' = "while"
    /\ pkmn1' = i
    /\ pkmn2' = j
    /\ call_hp' = <<pokemons[i].hp, pokemons[j].hp>>
    /\ log' = <<>>
    /\ error' = "none"
    /\ result' = NoResult
    /\ UNCHANGED <<pokemons, counter, history, returned, move>>

\* attack_opponent choosing its move after the damage: the damage is applied,
\* then random.choice raises
BattleAttackDamageFirst(a, d, next) ==
    IF pokemons[a].moves = <<>>
    THEN /\ error' = "IndexError"
         /\ pc' = "idle"
         /\ pokemons' = AttackOpponent(a, d)
         /\ UNCHANGED <<log, move>>
    ELSE /\ \E m \in 1 .. Len(pokemons[a].moves) : move' = pokemons[a].moves[m]
         /\ pokemons' = AttackOpponent(a, d)
         /\ log' = Append(log, Notice(a, d, Damage(pokemons[a], pokemons[d]),
                                      pokemons'[d].hp))
         /\ pc' = IF next = "check" /\ pokemons'[d].hp <= 0 THEN "winner"
                  ELSE IF next = "check" THEN "second" ELSE "while"
         /\ UNCHANGED error

\* attack_opponent inside a battle whose round has no break test
BattleAttackNoBreak(a, d, next) ==
    IF pokemons[a].moves = <<>>
    THEN /\ error' = "IndexError"
         /\ pc' = "idle"
         /\ UNCHANGED <<pokemons, log, move>>
    ELSE /\ \E m \in 1 .. Len(pokemons[a].moves) : move' = pokemons[a].moves[m]
         /\ pokemons' = AttackOpponent(a, d)
         /\ log' = Append(log, Notice(a, d, Damage(pokemons[a], pokemons[d]),
                                      pokemons'[d].hp))
         /\ pc' = IF next = "check" THEN "second" ELSE "while"
         /\ UNCHANGED error

\* attack_opponent with a damage that depends on the move drawn: the m-th move
\* of the list deals m - 1 more
BattleAttackMoveBonus(a, d, next) ==
    IF pokemons[a].moves = <<>>
    THEN /\ error' = "IndexError"
         /\ pc' = "idle"
         /\ UNCHANGED <<pokemons, log, move>>
    ELSE /\ \E m \in 1 .. Len(pokemons[a].moves) :
              /\ move' = pokemons[a].moves[m]
              /\ pokemons' =
                    [pokemons EXCEPT ![d] =
                        ReceiveDamage(pokemons[d],
                                      Damage(pokemons[a], pokemons[d]) + m - 1)]
              /\ log' = Append(log, Notice(a, d,
                                           Damage(pokemons[a], pokemons[d]) + m - 1,
                                           pokemons'[d].hp))
         /\ pc' = IF next = "check" /\ pokemons'[d].hp <= 0 THEN "winner"
                  ELSE IF next = "check" THEN "second" ELSE "while"
         /\ UNCHANGED error

\* one attack_opponent inside battle; an IndexError leaves battle at once
BattleAttack(a, d, next) ==
    IF pokemons[a].moves = <<>>
    THEN /\ error' = "IndexError"
         /\ pc' = "idle"
         /\ UNCHANGED <<pokemons, log, move>>
    ELSE /\ \E m \in 1 .. Len(pokemons[a].moves) : move' = pokemons[a].moves[m]
         /\ pokemons' = AttackOpponent(a, d)
         /\ log' = Append(log, Notice(a, d, Damage(pokemons[a], pokemons[d]),
                                      pokemons'[d].hp))
         /\ pc' = IF next = "check" /\ pokemons'[d].hp <= 0 THEN "winner"
                  ELSE IF next = "check" THEN "second" ELSE "while"
         /\ UNCHANGED error

\* the loop condition holds: the faster one attacks, then the break test
BattleFirstAttack ==
    /\ pc = "while"
    /\ Fighting
    /\ BattleAttack(First, Second, "check")
    /\ UNCHANGED <<counter, history, returned, pkmn1, pkmn2, call_hp, calls,
                   result>>

\* no break: the other one attacks, and control returns to the loop condition
BattleSecondAttack ==
    /\ pc = "second"
    /\ BattleAttack(Second, First, "loop")
    /\ UNCHANGED <<counter, history, returned, pkmn1, pkmn2, call_hp, calls,
                   result>>

\* the winner picked with >= for >: pkmn1 if pkmn1.hp >= 0 else pkmn2
WinnerNonNegative == IF pokemons[pkmn1].hp >= 0 THEN pkmn1 ELSE pkmn2

\* the winner battle picks after the loop
Winner == IF pokemons[pkmn1].hp > 0 THEN pkmn1 ELSE pkmn2

\* the record battle appends
Record ==
    [pkmn1 |-> pokemons[pkmn1].name, pkmn2 |-> pokemons[pkmn2].name,
     winner |-> pokemons[Winner].name]

\* battle putting its record in front: history.insert(0, ...) for history.append
BattleReturnInsert ==
    /\ \/ pc = "winner"
       \/ pc = "while" /\ ~Fighting
    /\ history' = <<Record>> \o history
    /\ returned' = Append(returned, pokemons[Winner].name)
    /\ pc' = "idle"
    /\ UNCHANGED <<pokemons, counter, pkmn1, pkmn2, call_hp, log, move, error,
                   calls, result>>

\* the loop is left (condition false, or break): winner, history.append, return
BattleReturn ==
    /\ \/ pc = "winner"
       \/ pc = "while" /\ ~Fighting
    /\ history' = Append(history, Record)
    /\ returned' = Append(returned, pokemons[Winner].name)
    /\ pc' = "idle"
    /\ UNCHANGED <<pokemons, counter, pkmn1, pkmn2, call_hp, log, move, error,
                   calls, result>>

Next ==
    \/ \E k \in 1 .. Len(Inputs) : Create(k)
    \/ \E i \in Indices, damage \in DamageVals : ReceiveDamageCall(i, damage)
    \/ \E a \in Indices, d \in Indices : AttackCall(a, d)
    \/ \E i \in Indices, j \in Indices : BattleCall(i, j)
    \/ BattleFirstAttack
    \/ BattleSecondAttack
    \/ BattleReturn
    \/ StatsCall
    \/ GroupCall

Spec == Init /\ [][Next]_vars

\* a running battle is not suspended: its next statement is eventually executed
BattleStep == BattleFirstAttack \/ BattleSecondAttack \/ BattleReturn

FairSpec == Spec /\ WF_vars(BattleStep)

(***************************************************************************)
(* The data analysis on its own: the driver has constructed one of the     *)
(* lists AggRosters (main's four Pokemon, or some of AggPool in any        *)
(* order), and calls receive_damage, pokemon_statistics and group_by_type. *)
(***************************************************************************)
Squirtle ==
    [name |-> "Squirtle", type_ |-> "Water", hp |-> 44, attack |-> 48,
     defense |-> 65, speed |-> 43, moves |-> <<"Water Gun", "Tackle", "Bubble">>]

Bulbasaur ==
    [name |-> "Bulbasaur", type_ |-> "Grass", hp |-> 45, attack |-> 49,
     defense |-> 49, speed |-> 45, moves |-> <<"Vine Whip", "Tackle", "Seed Bomb">>]

\* the list main constructs
MainRoster == <<Pikachu, Charmander, Squirtle, Bulbasaur>>

\* two Pokemon of type Fire and two of type Normal
AggPool == {Charmander, Rattata, Ditto, MissingNo}

\* the sequences without repetition over a set
RECURSIVE Arrangements(_)
Arrangements(S) ==
    {<<>>} \cup UNION {{<<x>> \o r : r \in Arrangements(S \ {x})} : x \in S}

AggRosters == {MainRoster} \cup Arrangements(AggPool)

\* the Pokemon constructed, in order, from a list of constructor arguments
Constructed(roster) ==
    [k \in 1 .. Len(roster) |-> NewPokemon(roster[k], FormatId(IdPrefix, k))]

AggInit ==
    /\ \E roster \in AggRosters :
          /\ pokemons = Constructed(roster)
          /\ counter = Len(roster) + 1
    /\ history = <<>>
    /\ returned = <<>>
    /\ pc = "idle"
    /\ pkmn1 = 0
    /\ pkmn2 = 0
    /\ call_hp = <<0, 0>>
    /\ log = <<>>
    /\ move = ""
    /\ error = "none"
    /\ calls = 0
    /\ result = NoResult

AggNext ==
    \/ \E i \in Indices, damage \in DamageVals : ReceiveDamageCall(i, damage)
    \/ StatsCall
    \/ GroupCall

AggSpec == AggInit /\ [][AggNext]_vars

(***************************************************************************)
(* Vocabulary of the properties.                                           *)
(***************************************************************************)
\* a battle is running
InBattle == pc \in {"while", "second", "winner"}

\* the latest call was a battle and it has returned a winner
BattleReturned == pc = "idle" /\ pkmn1 # 0 /\ error = "none"

\* the latest value battle returned
LastReturned == returned[Len(returned)]

\* this step is one attack_opponent inside battle that did not raise
BattleAttackStep == InBattle /\ Len(log') = Len(log) + 1

(***************************************************************************)
(* C1.  A battle between two Pokemon with non-empty move lists and         *)
(* hp >= 0 terminates: every attack inside it strictly lowers the          *)
(* defender's positive hp, so it makes at most pkmn1.hp + pkmn2.hp         *)
(* attacks, and (with the running battle not suspended) it returns, and    *)
(* the name it returns is the name of one of its two arguments.            *)
(***************************************************************************)
\* both participants can attack, and neither started below zero
C1_Pre ==
    /\ pkmn1 # 0
    /\ pokemons[pkmn1].moves # <<>>
    /\ pokemons[pkmn2].moves # <<>>
    /\ call_hp[1] >= 0
    /\ call_hp[2] >= 0

C1_AttackLowers ==
    BattleAttackStep =>
        LET d == log'[Len(log')].defender
        IN  pokemons[d].hp > 0 /\ pokemons'[d].hp < pokemons[d].hp

C1_FinitelyMany ==
    (InBattle \/ BattleReturned) /\ C1_Pre => Len(log) <= call_hp[1] + call_hp[2]

\* such a battle is not left by an exception, and what it returns is the name
\* of one of its arguments
C1_ReturnsAName ==
    pc = "idle" /\ C1_Pre =>
        /\ error = "none"
        /\ returned # <<>>
        /\ LastReturned \in {pokemons[pkmn1].name, pokemons[pkmn2].name}

\* a battle is running and C1_Pre holds
C1_Running == IF InBattle THEN C1_Pre ELSE FALSE

\* a running battle is left: no call can start before it is
C1_Returns == C1_Running ~> BattleReturned

\* C1: every attack in a battle lowers the defender's positive hp, a battle of
\* Pokemon with moves and hp >= 0 makes finitely many attacks and returns, and
\* what it returns is the name of one of its two arguments
C1_BattleTerminates ==
    /\ [][C1_AttackLowers]_vars
    /\ [](C1_FinitelyMany /\ C1_ReturnsAName)
    /\ C1_Returns

\* a battle of two distinct Pokemon has returned after three or more attacks
C1_Witness ==
    /\ BattleReturned
    /\ pkmn1 # pkmn2
    /\ C1_Pre
    /\ Len(log) >= 3
    /\ LastReturned \in {pokemons[pkmn1].name, pokemons[pkmn2].name}

(***************************************************************************)
(* C2.  When a battle between two distinct Pokemon that both had hp > 0    *)
(* leaves its loop, exactly one of the two has hp > 0 and the other has    *)
(* hp = 0, and the name returned is the name of the one with hp > 0 (and   *)
(* not of the other); both at 0 is never reached.                          *)
(***************************************************************************)
\* the latest battle call had two distinct participants, both with hp > 0
C2_Pre == pkmn1 # 0 /\ pkmn1 # pkmn2 /\ call_hp[1] > 0 /\ call_hp[2] > 0

\* the loop of battle has been left without an exception
LoopExited == pc = "winner" \/ (pc = "while" /\ ~Fighting) \/ BattleReturned

\* exactly one of x and y is positive, the other is zero
OneStanding(x, y) == (x > 0 /\ y = 0) \/ (x = 0 /\ y > 0)

\* C2: when the loop of a battle of two distinct Pokemon that started with
\* hp > 0 is left, exactly one has hp > 0, and its name is the one returned
C2_ExactlyOneStanding ==
    C2_Pre /\ LoopExited =>
        /\ OneStanding(pokemons[pkmn1].hp, pokemons[pkmn2].hp)
        /\ BattleReturned =>
              /\ pokemons[pkmn1].hp > 0 => LastReturned = pokemons[pkmn1].name
              /\ pokemons[pkmn2].hp > 0 => LastReturned = pokemons[pkmn2].name
              /\ pokemons[pkmn1].hp = 0 => LastReturned # pokemons[pkmn1].name
              /\ pokemons[pkmn2].hp = 0 => LastReturned # pokemons[pkmn2].name

\* such a battle has returned, and its second argument won
C2_Witness ==
    /\ C2_Pre
    /\ BattleReturned
    /\ pokemons[pkmn1].hp = 0
    /\ pokemons[pkmn2].hp > 0
    /\ LastReturned = pokemons[pkmn2].name

(***************************************************************************)
(* C3.  Every Pokemon constructed with hp >= 0 has hp >= 0 in every        *)
(* reachable state (sort_index keeps the hp it was constructed with).      *)
(***************************************************************************)
\* C3: a Pokemon constructed with hp >= 0 never has hp < 0
C3_HpNeverNegative ==
    \A i \in Indices : pokemons[i].sort_index >= 0 => pokemons[i].hp >= 0

\* a damage larger than the hp it met has been applied, and hp stopped at 0
C3_Witness ==
    /\ log # <<>>
    /\ LET e == log[Len(log)]
       IN  /\ e.hp = 0
           /\ pokemons[e.defender].hp = 0
           /\ pokemons[e.defender].sort_index > 0
           /\ e.damage > pokemons[e.defender].sort_index

(***************************************************************************)
(* C4.  Whatever the attack and defense values, the damage one             *)
(* attack_opponent applies is max(attack - floor(defense / 2), 1), which   *)
(* is at least 1, and the defender's hp after it is max(old hp - damage,   *)
(* 0).  The floor is stated here by its defining inequalities.             *)
(***************************************************************************)
\* floor(x / 2): the integer q with 2q <= x < 2q + 2
FloorHalf(x) == CHOOSE q \in (0 - 25) .. 25 : 2 * q <= x /\ x < 2 * q + 2

\* this step is one attack_opponent that did not raise, called by the driver or by battle
AttackStep ==
    \/ BattleAttackStep
    \/ pc = "idle" /\ calls' = calls + 1 /\ Len(log') = 1 /\ log'[1].attacker # 0

C4_Step ==
    AttackStep =>
        LET e == log'[Len(log')]
            raw == pokemons[e.attacker].attack - FloorHalf(pokemons[e.defender].defense)
            old == pokemons[e.defender].hp
        IN  /\ e.damage = IF raw >= 1 THEN raw ELSE 1
            /\ e.damage >= 1
            /\ pokemons'[e.defender].hp = IF old - e.damage >= 0 THEN old - e.damage ELSE 0
            /\ e.hp = pokemons'[e.defender].hp

\* C4: every attack applies max(attack - floor(defense / 2), 1) >= 1 and leaves
\* the defender at max(old hp - damage, 0)
C4_DamageFormula == [][C4_Step]_vars

\* an attack against a negative odd defense by a negative attack was floored at 1
C4_Witness ==
    /\ log # <<>>
    /\ LET e == log[Len(log)]
       IN  /\ e.attacker # 0
           /\ pokemons[e.attacker].attack < 0
           /\ pokemons[e.defender].defense < 0
           /\ pokemons[e.defender].defense % 2 = 1
           /\ e.damage = 1

(***************************************************************************)
(* C5.  After receive_damage(d) with d >= 0 the Pokemon's hp is            *)
(* max(old hp - d, 0), and it is >= 0.                                     *)
(***************************************************************************)
\* this step is one receive_damage called by the driver
ReceiveDamageStep ==
    pc = "idle" /\ calls' = calls + 1 /\ Len(log') = 1 /\ log'[1].attacker = 0

C5_Step ==
    ReceiveDamageStep /\ log'[1].damage >= 0 =>
        LET i == log'[1].defender
            d == log'[1].damage
        IN  /\ pokemons[i].hp - d >= 0 => pokemons'[i].hp = pokemons[i].hp - d
            /\ pokemons[i].hp - d < 0 => pokemons'[i].hp = 0
            /\ pokemons'[i].hp >= 0

\* C5: receive_damage(d) with d >= 0 leaves hp = max(old hp - d, 0) >= 0
C5_ReceiveDamage == [][C5_Step]_vars

\* a positive damage smaller than the hp has been taken off it
C5_Witness ==
    /\ Len(log) = 1
    /\ log[1].attacker = 0
    /\ log[1].damage > 0
    /\ log[1].hp > 0
    /\ pokemons[log[1].defender].hp = pokemons[log[1].defender].sort_index - log[1].damage

(***************************************************************************)
(* C6.  The history is an append-only log: a step either leaves it alone   *)
(* or is the return of a battle, which appends one record of the two       *)
(* names and the winner it returns; no battle returns without appending;   *)
(* after n returns the history holds n records, the k-th with the k-th     *)
(* value returned.                                                         *)
(***************************************************************************)
C6_Step ==
    /\ history' # history \/ returned' # returned =>
          /\ InBattle
          /\ pc' = "idle"
          /\ Len(returned') = Len(returned) + 1
          /\ SubSeq(returned', 1, Len(returned)) = returned
          /\ history' =
                Append(history, [pkmn1 |-> pokemons[pkmn1].name,
                                 pkmn2 |-> pokemons[pkmn2].name,
                                 winner |-> returned'[Len(returned')]])
    /\ InBattle /\ pc' = "idle" /\ error' = "none" => Len(history') = Len(history) + 1

C6_Counts ==
    /\ Len(history) = Len(returned)
    /\ \A k \in 1 .. Len(history) : history[k].winner = returned[k]

\* C6: the history only grows, by one record at each return of battle, and
\* holds the returned winners in call order
C6_AppendOnly == [][C6_Step]_vars /\ []C6_Counts

\* two battles have returned, and their records differ
C6_Witness ==
    /\ pc = "idle"
    /\ Len(history) = 2
    /\ Len(returned) = 2
    /\ history[1] # history[2]

(***************************************************************************)
(* C7.  The example: A(hp 35, attack 55, defense 40, speed 90) against     *)
(* B(hp 39, attack 52, defense 43, speed 65).  Exactly three attacks       *)
(* happen, A on B (34, B.hp 5), B on A (32, A.hp 3), A on B (34, B.hp 0);  *)
(* B makes no second attack and the battle returns A's name.               *)
(***************************************************************************)
\* the latest battle call is the example's
C7_Pre ==
    /\ pkmn1 # 0
    /\ call_hp = <<35, 39>>
    /\ pokemons[pkmn1].attack = 55 /\ pokemons[pkmn1].defense = 40
    /\ pokemons[pkmn1].speed = 90
    /\ pokemons[pkmn2].attack = 52 /\ pokemons[pkmn2].defense = 43
    /\ pokemons[pkmn2].speed = 65

\* the three attacks of the example
C7_Expected ==
    <<[attacker |-> pkmn1, defender |-> pkmn2, damage |-> 34, hp |-> 5],
      [attacker |-> pkmn2, defender |-> pkmn1, damage |-> 32, hp |-> 3],
      [attacker |-> pkmn1, defender |-> pkmn2, damage |-> 34, hp |-> 0]>>

\* C7: the example battle makes exactly the attacks A, B, A with hp 5, 3, 0
\* and returns A's name
C7_Example ==
    C7_Pre =>
        /\ Len(log) <= 3
        /\ log = SubSeq(C7_Expected, 1, Len(log))
        /\ Len(log) = 3 => pc \in {"winner", "idle"}
        /\ pc = "idle" =>
              /\ error = "none"
              /\ log = C7_Expected
              /\ pokemons[pkmn1].hp = 3
              /\ pokemons[pkmn2].hp = 0
              /\ LastReturned = pokemons[pkmn1].name

\* the example's battle has returned
C7_Witness ==
    /\ C7_Pre
    /\ BattleReturned
    /\ Len(log) = 3
    /\ LastReturned = "Pikachu"

(***************************************************************************)
(* C8.  No operation makes a Pokemon's hp greater than it was: hp only     *)
(* decreases.  (The code does not keep this: receive_damage accepts a      *)
(* negative damage, which raises hp.)                                      *)
(***************************************************************************)
\* C8: no step makes the hp of any Pokemon greater than it was
C8_HpOnlyDecreases ==
    [][\A i \in Indices : pokemons'[i].hp <= pokemons[i].hp]_vars

(***************************************************************************)
(* C9.  receive_damage, attack_opponent and battle leave every Pokemon's   *)
(* id, name, type, attack, defense, speed and moves as they were, and a    *)
(* step of battle leaves every Pokemon other than its two arguments        *)
(* entirely as it was.                                                     *)
(***************************************************************************)
\* the fields the claim names are the same in p and q
SameStatics(p, q) ==
    /\ p.id = q.id
    /\ p.name = q.name
    /\ p.type_ = q.type_
    /\ p.attack = q.attack
    /\ p.defense = q.defense
    /\ p.speed = q.speed
    /\ p.moves = q.moves

C9_Step ==
    /\ \A i \in Indices : SameStatics(pokemons'[i], pokemons[i])
    /\ InBattle => \A i \in Indices \ {pkmn1, pkmn2} : pokemons'[i] = pokemons[i]

\* C9: no step changes a Pokemon's id, name, type, attack, defense, speed or
\* moves, and a step of battle changes no Pokemon but its two arguments
C9_Frame == [][C9_Step]_vars

\* a battle with attacks has returned while a Pokemon that took no part exists
C9_Witness ==
    /\ BattleReturned
    /\ log # <<>>
    /\ Indices \ {pkmn1, pkmn2} # {}
    /\ pokemons[pkmn1].hp < call_hp[1] \/ pokemons[pkmn2].hp < call_hp[2]

(***************************************************************************)
(* C10.  The k-th Pokemon constructed has the id PKMN-k: the ids are       *)
(* pairwise distinct, their numbers increase with the construction order,  *)
(* an id once given is kept, and a new Pokemon never gets an id in use.    *)
(***************************************************************************)
\* the number n whose id PKMN-n is
IdNumber(id) == CHOOSE n \in 1 .. MaxPokemons + 1 : "PKMN-" \o ToString(n) = id

C10_State ==
    /\ \A k \in Indices : pokemons[k].id = "PKMN-" \o ToString(k)
    /\ \A i \in Indices, j \in Indices :
          i < j => /\ pokemons[i].id # pokemons[j].id
                   /\ IdNumber(pokemons[i].id) < IdNumber(pokemons[j].id)

C10_Step ==
    /\ \A i \in Indices : pokemons'[i].id = pokemons[i].id
    /\ \A j \in 1 .. Len(pokemons') :
          j \notin Indices => \A i \in Indices : pokemons'[j].id # pokemons[i].id

\* C10: the k-th Pokemon constructed has the id PKMN-k; ids are distinct,
\* increasing in construction order, kept, and never given twice
C10_SequentialIds == []C10_State /\ [][C10_Step]_vars

\* MaxPokemons Pokemon have been constructed; the latest has the id PKMN-MaxPokemons
C10_Witness ==
    /\ Len(pokemons) = MaxPokemons
    /\ Len(pokemons) >= 2
    /\ pokemons[Len(pokemons)].id = "PKMN-" \o ToString(MaxPokemons)
    /\ pokemons[1].id = "PKMN-1"

(***************************************************************************)
(* C11.  When the Pokemon due to attack has an empty move list, the attack *)
(* raises before any damage: no hp changes, the exception leaves battle,   *)
(* nothing is returned and no record is appended.  (The exception Python   *)
(* raises is random.choice's IndexError.)                                  *)
(***************************************************************************)
\* the Pokemon whose attack_opponent the running battle calls next, or 0
DueToAttack ==
    IF pc = "while" /\ Fighting THEN First
    ELSE IF pc = "second" THEN Second
    ELSE 0

\* battle is about to call attack_opponent on a Pokemon without moves
C11_Pre == IF DueToAttack = 0 THEN FALSE ELSE pokemons[DueToAttack].moves = <<>>

C11_Step ==
    C11_Pre /\ vars' # vars =>
        /\ error' = "IndexError"
        /\ pokemons' = pokemons
        /\ log' = log
        /\ pc' = "idle"
        /\ returned' = returned
        /\ history' = history

\* after an exception the latest call has returned nothing and recorded nothing
C11_State ==
    pc = "idle" /\ error = "IndexError" =>
        /\ Len(returned) = Len(history)
        /\ Len(returned) < calls
        /\ pkmn1 # 0 =>
              /\ pokemons[pkmn1].moves = <<>> \/ pokemons[pkmn2].moves = <<>>
              /\ \A k \in 1 .. Len(log) : pokemons[log[k].attacker].moves # <<>>

\* C11: an attack by a Pokemon without moves raises before any damage, the
\* exception leaves battle, and battle returns nothing and appends no record
C11_EmptyMovesRaise == [][C11_Step]_vars /\ []C11_State

\* a battle of two Pokemon with hp > 0 was left by the exception
C11_Witness ==
    /\ pc = "idle"
    /\ error = "IndexError"
    /\ pkmn1 # 0
    /\ pkmn1 # pkmn2
    /\ call_hp[1] > 0
    /\ call_hp[2] > 0
    /\ pokemons[pkmn1].hp = call_hp[1]
    /\ pokemons[pkmn2].hp = call_hp[2]
    /\ history = <<>>

(***************************************************************************)
(* C16.  The first attack of every round is made by pkmn1 when             *)
(* pkmn1.speed >= pkmn2.speed (equal speeds included), and by pkmn2 only   *)
(* when pkmn2.speed is strictly greater.                                   *)
(***************************************************************************)
\* this step is the first attack of a round
RoundFirstAttackStep == pc = "while" /\ Len(log') = Len(log) + 1

C16_Step ==
    RoundFirstAttackStep =>
        LET e == log'[Len(log')]
            s1 == pokemons[pkmn1].speed
            s2 == pokemons[pkmn2].speed
        IN  /\ s1 >= s2 => e.attacker = pkmn1 /\ e.defender = pkmn2
            /\ s1 < s2 => e.attacker = pkmn2 /\ e.defender = pkmn1
            /\ pokemons[e.attacker].speed >= pokemons[e.defender].speed

\* C16: a round's first attack is pkmn1's when pkmn1.speed >= pkmn2.speed
\* (ties included) and pkmn2's only when pkmn2.speed is strictly greater
C16_SpeedOrder == [][C16_Step]_vars

\* two distinct Pokemon of equal speed have fought, and pkmn1 attacked first
C16_Witness ==
    /\ pkmn1 # 0
    /\ pkmn1 # pkmn2
    /\ pokemons[pkmn1].speed = pokemons[pkmn2].speed
    /\ log # <<>>
    /\ log[1].attacker = pkmn1

(***************************************************************************)
(* C17.  Inside a battle no attack is made once a participant's hp is 0:   *)
(* before every attack both participants have hp > 0, and a first attack   *)
(* that takes the other's hp to 0 is followed by the return, not by a      *)
(* counter-attack.                                                         *)
(***************************************************************************)
C17_Step ==
    /\ BattleAttackStep =>
          /\ pokemons[pkmn1].hp > 0
          /\ pokemons[pkmn2].hp > 0
    /\ RoundFirstAttackStep /\ pokemons'[log'[Len(log')].defender].hp <= 0 =>
          pc' = "winner"

\* the counter-attack is only due while both stand
C17_State ==
    /\ pc = "second" => pokemons[pkmn1].hp > 0 /\ pokemons[pkmn2].hp > 0
    /\ pc = "winner" => DueToAttack = 0

\* C17: in a battle a Pokemon with hp 0 never attacks, and a first attack that
\* knocks the other out ends the loop without a counter-attack
C17_NoAttackAtZero == [][C17_Step]_vars /\ []C17_State

\* a round's first attack knocked the other out, and the battle returned at once
C17_Witness ==
    /\ BattleReturned
    /\ pkmn1 # pkmn2
    /\ log # <<>>
    /\ log[Len(log)].attacker = First
    /\ log[Len(log)].hp = 0
    /\ pokemons[Second].hp = 0
    /\ pokemons[First].hp > 0

(***************************************************************************)
(* C19.  A battle called with a participant at hp 0 makes no attack and    *)
(* changes no hp; it still appends one record and returns pkmn1 when       *)
(* pkmn1.hp > 0 and pkmn2 otherwise, so with both at 0 it returns pkmn2,   *)
(* whose hp is 0.                                                          *)
(***************************************************************************)
\* the latest call is a battle that was called with a participant at hp 0
C19_Pre == pkmn1 # 0 /\ (call_hp[1] = 0 \/ call_hp[2] = 0)

C19_State ==
    C19_Pre =>
        /\ log = <<>>
        /\ error = "none"
        /\ pokemons[pkmn1].hp = call_hp[1]
        /\ pokemons[pkmn2].hp = call_hp[2]
        /\ pc \in {"while", "idle"}
        /\ pc = "idle" =>
              /\ returned # <<>>
              /\ call_hp[1] > 0 => LastReturned = pokemons[pkmn1].name
              /\ call_hp[1] <= 0 => LastReturned = pokemons[pkmn2].name
              /\ history[Len(history)] =
                    [pkmn1 |-> pokemons[pkmn1].name,
                     pkmn2 |-> pokemons[pkmn2].name,
                     winner |-> LastReturned]

C19_Step ==
    C19_Pre /\ InBattle /\ vars' # vars =>
        /\ pc' = "idle"
        /\ Len(history') = Len(history) + 1
        /\ Len(returned') = Len(returned) + 1

\* C19: a battle called with a participant at hp 0 attacks nobody, changes no
\* hp, appends one record, and returns pkmn1 if pkmn1.hp > 0 and else pkmn2
C19_KnockedOutStart == []C19_State /\ [][C19_Step]_vars

\* a battle called with both hp at 0 has returned its second argument
C19_Witness ==
    /\ BattleReturned
    /\ call_hp = <<0, 0>>
    /\ pokemons[pkmn2].hp = 0
    /\ LastReturned = pokemons[pkmn2].name
    /\ history # <<>>

(***************************************************************************)
(* C18.  The moves drawn do not matter: the attackers, the damages, every  *)
(* hp, the winner and the record of a battle are those of RefRun, a        *)
(* function of the participants' stats and of their hp at the call, in     *)
(* which no move occurs.  Two runs from the same values therefore agree    *)
(* whatever moves they draw.                                               *)
(***************************************************************************)
\* The battle of pkmn1 at hp h1 and pkmn2 at hp h2 from the given turn of a
\* round on: its notices, the two hp at its end, and whether it raised.
RECURSIVE RefRun(_, _, _)
RefRun(h1, h2, turn) ==
    LET p1 == [pokemons[pkmn1] EXCEPT !.hp = h1]
        p2 == [pokemons[pkmn2] EXCEPT !.hp = h2]
        oneAttacks == (turn = "first") = (p1.speed >= p2.speed)
        att == IF oneAttacks THEN p1 ELSE p2
        def == IF oneAttacks THEN p2 ELSE p1
        dmg == Damage(att, def)
        nh == ReceiveDamage(def, dmg).hp
        same == pkmn1 = pkmn2
        n1 == IF same \/ ~oneAttacks THEN nh ELSE h1
        n2 == IF same \/ oneAttacks THEN nh ELSE h2
        entry == [attacker |-> IF oneAttacks THEN pkmn1 ELSE pkmn2,
                  defender |-> IF oneAttacks THEN pkmn2 ELSE pkmn1,
                  damage |-> dmg, hp |-> nh]
    IN  IF turn = "first" /\ ~(h1 > 0 /\ h2 > 0)
        THEN [log |-> <<>>, hp |-> <<h1, h2>>, raised |-> FALSE]
        ELSE IF att.moves = <<>>
        THEN [log |-> <<>>, hp |-> <<h1, h2>>, raised |-> TRUE]
        ELSE LET rest ==
                     IF turn = "first" /\ nh <= 0
                     THEN [log |-> <<>>, hp |-> <<n1, n2>>, raised |-> FALSE]
                     ELSE RefRun(n1, n2, IF turn = "first" THEN "second" ELSE "first")
             IN  [rest EXCEPT !.log = <<entry>> \o rest.log]

C18_State ==
    pkmn1 # 0 =>
        LET r == RefRun(call_hp[1], call_hp[2], "first")
            w == IF r.hp[1] > 0 THEN pkmn1 ELSE pkmn2
        IN  /\ Len(log) <= Len(r.log)
            /\ log = SubSeq(r.log, 1, Len(log))
            /\ pc = "idle" =>
                  /\ log = r.log
                  /\ <<pokemons[pkmn1].hp, pokemons[pkmn2].hp>> = r.hp
                  /\ (error = "IndexError") = r.raised
                  /\ ~r.raised =>
                        /\ LastReturned = pokemons[w].name
                        /\ history[Len(history)] =
                              [pkmn1 |-> pokemons[pkmn1].name,
                               pkmn2 |-> pokemons[pkmn2].name,
                               winner |-> pokemons[w].name]

\* C18: the attackers, damages, hp, winner and record of a battle are a
\* function of the starting hp and the stats alone, whatever moves are drawn
C18_MoveIndependent == []C18_State

\* a battle of several attacks has returned, and the last move drawn was not
\* the first of its attacker's list
C18_Witness ==
    /\ BattleReturned
    /\ Len(log) >= 3
    /\ Len(pokemons[log[Len(log)].attacker].moves) >= 2
    /\ move # pokemons[log[Len(log)].attacker].moves[1]

(***************************************************************************)
(* C12.  group_by_type returns a partition of the list by type label:      *)
(* every Pokemon of the list is in exactly one group, once, under the key  *)
(* that equals its type; the groups hold nothing else; no group is empty.  *)
(***************************************************************************)
\* the latest call was group_by_type, and the list is as it was then
Grouped == result.call = "group_by_type"

\* the places (group, position) at which the reference i occurs in the groups g
Places(g, i) ==
    {kj \in UNION {{<<k, j>> : j \in 1 .. Len(g[k].members)} : k \in 1 .. Len(g)} :
        g[kj[1]].members[kj[2]] = i}

\* C12: the groups group_by_type returns are a partition of the list by type
C12_Partition ==
    Grouped =>
        LET g == result.value
        IN  /\ \A i \in Indices :
                  /\ Cardinality(Places(g, i)) = 1
                  /\ \A kj \in Places(g, i) : g[kj[1]].key = pokemons[i].type_
            /\ \A k \in 1 .. Len(g) :
                  /\ g[k].members # <<>>
                  /\ \A j \in 1 .. Len(g[k].members) : g[k].members[j] \in Indices
            /\ \A k \in 1 .. Len(g), l \in 1 .. Len(g) : g[k].key = g[l].key => k = l

\* a list whose types alternate (A, B, A) has been grouped into two groups
C12_Witness ==
    /\ Grouped
    /\ Len(pokemons) >= 3
    /\ pokemons[1].type_ = pokemons[3].type_
    /\ pokemons[1].type_ # pokemons[2].type_
    /\ Len(result.value) = 2

(***************************************************************************)
(* C13.  pokemon_statistics of a non-empty list returns the largest hp as  *)
(* max_hp, the smallest as min_hp, and the sum of the hp divided by the    *)
(* length, not rounded, as average_hp; for the hp 35, 39, 44, 45 these     *)
(* are 45, 35 and 163/4.                                                   *)
(***************************************************************************)
\* the latest call was pokemon_statistics, and the list is as it was then
Summarised == result.call = "pokemon_statistics"

\* C13: max_hp, min_hp and average_hp are the largest, the smallest and the
\* exact mean of the current hp values
C13_Statistics ==
    Summarised =>
        LET v == result.value
            hps == {pokemons[i].hp : i \in Indices}
        IN  /\ v.max_hp \in hps
            /\ \A h \in hps : h <= v.max_hp
            /\ v.min_hp \in hps
            /\ \A h \in hps : v.min_hp <= h
            /\ v.average_hp.den >= 1
            /\ v.average_hp.num * Len(pokemons) =
                  Sum(HpValues(pokemons)) * v.average_hp.den
            /\ HpValues(pokemons) = <<35, 39, 44, 45>> =>
                  /\ v.max_hp = 45
                  /\ v.min_hp = 35
                  /\ v.average_hp = [num |-> 163, den |-> 4]

\* the statistics of the hp 35, 39, 44, 45 have been returned
C13_Witness ==
    /\ Summarised
    /\ HpValues(pokemons) = <<35, 39, 44, 45>>
    /\ result.value.average_hp = [num |-> 163, den |-> 4]

(***************************************************************************)
(* C14.  pokemon_statistics of an empty list raises (statistics.mean's     *)
(* StatisticsError) and returns nothing.                                   *)
(***************************************************************************)
\* this step is a call of pokemon_statistics
StatsStep ==
    /\ pc = "idle"
    /\ calls' = calls + 1
    /\ pc' = "idle"
    /\ log' = <<>>
    /\ result'.call # "group_by_type"
    /\ error' # "IndexError"

C14_Step ==
    StatsStep /\ pokemons = <<>> => error' = "StatisticsError" /\ result' = NoResult

C14_State ==
    /\ Summarised => pokemons # <<>> /\ error = "none"
    /\ error = "StatisticsError" => pokemons = <<>> /\ result = NoResult

\* C14: pokemon_statistics of an empty list raises and returns no result
C14_EmptyRaises == [][C14_Step]_vars /\ []C14_State

\* pokemon_statistics has raised on the empty list
C14_Witness ==
    /\ pokemons = <<>>
    /\ calls > 0
    /\ error = "StatisticsError"
    /\ result = NoResult

(***************************************************************************)
(* C15.  pokemon_statistics and group_by_type change nothing: not a field  *)
(* of a Pokemon, not the order of the list, not the id counter, not the    *)
(* history; and either of them, called again right after itself, returns   *)
(* what it returned before.                                                *)
(***************************************************************************)
C15_Step ==
    /\ result'.call # "none" /\ calls' # calls =>
          /\ pokemons' = pokemons
          /\ counter' = counter
          /\ history' = history
          /\ returned' = returned
    /\ result.call # "none" /\ result'.call = result.call /\ calls' # calls =>
          result' = result

\* C15: the two aggregations are read-only, and repeating one on the
\* unchanged list repeats its result
C15_ReadOnly == [][C15_Step]_vars

\* after a battle, a list that is not in type order has been grouped and is
\* still in its order
C15_Witness ==
    /\ Grouped
    /\ history # <<>>
    /\ Len(pokemons) = 2
    /\ Len(result.value) = 2
    /\ result.value[1].members = <<2>>
    /\ TypeLess(pokemons[2].type_, pokemons[1].type_)

(***************************************************************************)
(* C20.  Inside each group the Pokemon are in the order they have in the   *)
(* list, and the keys come in strictly ascending order of the type label,  *)
(* so each label is a key once.                                            *)
(***************************************************************************)
\* C20: group members keep their order of the list (the sort is stable), and
\* the keys are strictly ascending
C20_StableAscending ==
    Grouped =>
        LET g == result.value
        IN  /\ \A k \in 1 .. Len(g) :
                  \A i \in 1 .. Len(g[k].members), j \in 1 .. Len(g[k].members) :
                      i < j => g[k].members[i] < g[k].members[j]
            /\ \A k \in 1 .. Len(g), l \in 1 .. Len(g) :
                  k < l => TypeLess(g[k].key, g[l].key)

\* a list that is not in type order has been grouped, and a group has two members
C20_Witness ==
    /\ Grouped
    /\ Len(result.value) >= 2
    /\ \E k \in 1 .. Len(result.value) : Len(result.value[k].members) >= 2
    /\ \E i \in Indices, j \in Indices :
          i < j /\ TypeLess(pokemons[j].type_, pokemons[i].type_)

====
